---------------------------- MODULE Spec2Model ----------------------------
(***************************************************************************)
(* Food Analyzer Agent: the reply-extraction code of agent.py, the agent   *)
(* operations built on it, the SQLite persistence of database.py, and the  *)
(* get_agent singleton, the functions of tools.py and the handlers of      *)
(* food_analyzer_api.py that use them.                                     *)
(*                                                                         *)
(* Text is a sequence of atoms.  An atom is a run of characters that is    *)
(* never split: "backtick" is one backtick character (a TLA+ string cannot *)
(* hold that character), "json" the four letters of the fence              *)
(* label, " " and "\n" are whitespace, "\"" a double quote, "\\" a         *)
(* backslash, and the remaining atoms are words such as "x" or             *)
(* "dish_name".  No atom contains a backtick or part of the word json, so  *)
(* a substring search on characters and on atoms find the same places.     *)
(***************************************************************************)
EXTENDS Integers, Sequences, FiniteSets, TLC

VARIABLES
    content,    \* SpecExtract: the model reply under extraction
    tool,       \* SpecExtract: the tool whose extraction code ran last
    json_str,   \* SpecExtract: the candidate payload that code computed
    request,    \* SpecAgent: the agent call in progress or answered last
    result,     \* SpecAgent: what that call did, <<>> while in progress
    last_invocation_failure,
                \* SpecAgent: what the latest call whose model invocation
                \* failed returned to its caller

    rows,       \* food_analyses: the rows of the table, by id
    sqlite_sequence,
                \* the largest id AUTOINCREMENT has given out
    clock,      \* CURRENT_TIMESTAMP, in whole seconds
    response,   \* what the database operation that ran last returned
    saves,      \* history: the save_analysis calls so far, in order, each
                \* with the identifier it returned

    _agent_instance,
                \* agent.py: the module global, None or the agent
    constructed,
                \* history: how many FoodAnalyzerAgent instances were made
    OPENAI_API_KEY,
                \* what os.getenv("OPENAI_API_KEY") returns
    http        \* SpecApi: the request handled last, with its response

extractVars == <<content, tool, json_str>>
agentVars == <<request, result, last_invocation_failure>>
dbVars == <<rows, sqlite_sequence, clock, response, saves>>
apiVars == <<_agent_instance, constructed, OPENAI_API_KEY, http>>
vars == <<extractVars, agentVars, dbVars, apiVars>>

\* the variables of a part of the model while that part is not under study
ExtractIdle == content = <<>> /\ tool = "None" /\ json_str = "None"
AgentIdle == request = <<>> /\ result = <<>> /\ last_invocation_failure = <<>>
DbIdle ==
    /\ rows = <<>>
    /\ sqlite_sequence = 0
    /\ clock = 0
    /\ response = <<>>
    /\ saves = <<>>

ApiIdle ==
    /\ _agent_instance = <<>>
    /\ constructed = 0
    /\ OPENAI_API_KEY = "None"
    /\ http = <<>>

None == "None"

---------------------------------------------------------------------------
(* Bounds *)

\* most segments a generated reply is made of
MaxSegments == 5

\* most rows save_analysis is let to insert
MaxSaves == 2

\* most seconds the clock is let to advance
MaxClock == 1

\* the limits a caller passes are -MaxLimit .. MaxLimit
MaxLimit == 2

---------------------------------------------------------------------------
(* Python str operations, on atoms *)

BT == "backtick"
Fence == <<BT, BT, BT>>
JsonFence == <<BT, BT, BT, "json">>
Whitespace == {" ", "\n"}

Min(S) == CHOOSE x \in S : \A y \in S : x <= y

Max(S) == CHOOSE x \in S : \A y \in S : x >= y

\* s[i:i+len(pat)] == pat
MatchAt(s, pat, i) ==
    /\ i >= 1
    /\ i + Len(pat) - 1 <= Len(s)
    /\ SubSeq(s, i, i + Len(pat) - 1) = pat

\* s.find(pat), 1-based; 0 when pat does not occur
Find(s, pat) ==
    LET hits == {i \in 1..Len(s) : MatchAt(s, pat, i)}
    IN  IF hits = {} THEN 0 ELSE Min(hits)

\* pat in s
In(pat, s) == Find(s, pat) # 0

\* s.split(sep): the pieces between the non-overlapping occurrences of sep,
\* found left to right
RECURSIVE Split(_, _)
Split(s, sep) ==
    LET i == Find(s, sep)
    IN  IF i = 0
        THEN <<s>>
        ELSE <<SubSeq(s, 1, i - 1)>> \o Split(SubSeq(s, i + Len(sep), Len(s)), sep)

\* s.strip()
Strip(s) ==
    LET keep == {i \in 1..Len(s) : s[i] \notin Whitespace}
    IN  IF keep = {} THEN <<>> ELSE SubSeq(s, Min(keep), Max(keep))

---------------------------------------------------------------------------
(* Python values.  A JSON value is a one-field record whose field names its *)
(* type: a str holds its atoms, a number its literal, a list its items, a   *)
(* dict a function from keys (the atoms of the key string) to values.       *)

JStr(s) == [str |-> s]
JNum(n) == [num |-> n]
JArr(l) == [arr |-> l]
JObj(f) == [obj |-> f]

IsStr(v) == DOMAIN v = {"str"}
IsNum(v) == DOMAIN v = {"num"}
IsArr(v) == DOMAIN v = {"arr"}
IsObj(v) == DOMAIN v = {"obj"}

Key(k) == <<k>>

\* an exception: its class and str(e), a sequence of strings
Exc(type, msg) == [type |-> type, msg |-> msg]

\* what a call does: it returns a value or raises an exception
Return(v) == [ret |-> v]
Raise(e) == [exc |-> e]
Raised(o) == DOMAIN o = {"exc"}

\* json.JSONDecodeError(msg, doc, pos); pos counts atoms from 0, as Python
\* counts characters
JSONDecodeError(reason, i) ==
    Exc("JSONDecodeError", <<reason, "char", ToString(i - 1)>>)

Ok(v, i) == [ok |-> TRUE, val |-> v, end |-> i]
Err(reason, i) == [ok |-> FALSE, exc |-> JSONDecodeError(reason, i)]

NumberAtoms == {"0", "1", "2", "70"}

\* json.decoder.WHITESPACE.match(s, i).end()
RECURSIVE SkipWs(_, _)
SkipWs(s, i) ==
    IF i <= Len(s) /\ s[i] \in Whitespace THEN SkipWs(s, i + 1) ELSE i

At(s, i) == IF i >= 1 /\ i <= Len(s) THEN s[i] ELSE None

\* json.decoder.py_scanstring: i is the place after the opening quote, begin
\* the place of the opening quote.  The escapes of the atoms in use: \" \\ \n
\* (no word atom follows a backslash in any text of the model).
RECURSIVE ScanString(_, _, _, _)
ScanString(s, i, acc, begin) ==
    IF i > Len(s)
    THEN Err("Unterminated string starting at", begin)
    ELSE IF s[i] = "\""
    THEN Ok(acc, i + 1)
    ELSE IF s[i] = "\n"
    THEN Err("Invalid control character at", i)
    ELSE IF s[i] # "\\"
    THEN ScanString(s, i + 1, Append(acc, s[i]), begin)
    ELSE IF i + 1 > Len(s)
    THEN Err("Unterminated string starting at", begin)
    ELSE IF s[i + 1] \in {"\"", "\\"}
    THEN ScanString(s, i + 2, Append(acc, s[i + 1]), begin)
    ELSE IF s[i + 1] = "n"
    THEN ScanString(s, i + 2, Append(acc, "\n"), begin)
    ELSE Err("Invalid \\escape", i)

RECURSIVE ScanOnce(_, _)
RECURSIVE JSONArrayItems(_, _, _)
RECURSIVE JSONObjectPairs(_, _, _)

\* json.decoder.JSONArray after the first value is due: i is where it starts
JSONArrayItems(s, i, acc) ==
    LET v == ScanOnce(s, i)
    IN  IF ~v.ok
        THEN v
        ELSE LET j == SkipWs(s, v.end)
                 items == Append(acc, v.val)
             IN  IF At(s, j) = "]"
                 THEN Ok(JArr(items), j + 1)
                 ELSE IF At(s, j) # ","
                 THEN Err("Expecting ',' delimiter", j)
                 ELSE JSONArrayItems(s, SkipWs(s, j + 1), items)

\* json.decoder.JSONArray: i is the place after "["
JSONArray(s, i) ==
    LET j == SkipWs(s, i)
    IN  IF At(s, j) = "]" THEN Ok(JArr(<<>>), j + 1) ELSE JSONArrayItems(s, j, <<>>)

\* json.decoder.JSONObject's loop: i is the place after the opening quote of
\* the next key; a repeated key keeps its last value
JSONObjectPairs(s, i, acc) ==
    LET k == ScanString(s, i, <<>>, i - 1)
    IN  IF ~k.ok
        THEN k
        ELSE LET c == SkipWs(s, k.end)
             IN  IF At(s, c) # ":"
                 THEN Err("Expecting ':' delimiter", c)
                 ELSE LET v == ScanOnce(s, SkipWs(s, c + 1))
                      IN  IF ~v.ok
                          THEN v
                          ELSE LET j == SkipWs(s, v.end)
                                   pairs == (k.val :> v.val) @@ acc
                                   q == SkipWs(s, j + 1)
                               IN  IF At(s, j) = "}"
                                   THEN Ok(JObj(pairs), j + 1)
                                   ELSE IF At(s, j) # ","
                                   THEN Err("Expecting ',' delimiter", j)
                                   ELSE IF At(s, q) # "\""
                                   THEN Err("Expecting property name enclosed in double quotes", q)
                                   ELSE JSONObjectPairs(s, q + 1, pairs)

\* json.decoder.JSONObject: i is the place after "{"
JSONObject(s, i) ==
    LET j == SkipWs(s, i)
    IN  IF At(s, j) = "}"
        THEN Ok(JObj(<<>>), j + 1)
        ELSE IF At(s, j) # "\""
        THEN Err("Expecting property name enclosed in double quotes", j)
        ELSE JSONObjectPairs(s, j + 1, <<>>)

\* json.scanner.py_make_scanner's _scan_once, for the literals of the atoms
\* in use: strings, numbers, lists and dicts
ScanOnce(s, i) ==
    LET c == At(s, i)
    IN  IF c = "\""
        THEN LET r == ScanString(s, i + 1, <<>>, i)
             IN  IF r.ok THEN Ok(JStr(r.val), r.end) ELSE r
        ELSE IF c = "{"
        THEN JSONObject(s, i + 1)
        ELSE IF c = "["
        THEN JSONArray(s, i + 1)
        ELSE IF c \in NumberAtoms
        THEN Ok(JNum(c), i + 1)
        ELSE Err("Expecting value", i)

\* json.loads(s): JSONDecoder.decode
Loads(s) ==
    LET r == ScanOnce(s, SkipWs(s, 1))
    IN  IF ~r.ok
        THEN Raise(r.exc)
        ELSE IF SkipWs(s, r.end) # Len(s) + 1
        THEN Raise(JSONDecodeError("Extra data", SkipWs(s, r.end)))
        ELSE Return(r.val)

\* json.dumps(v, ensure_ascii=False) of a str
RECURSIVE EncodeStr(_)
EncodeStr(s) ==
    IF s = <<>>
    THEN <<>>
    ELSE (CASE Head(s) = "\"" -> <<"\\", "\"">>
            [] Head(s) = "\\" -> <<"\\", "\\">>
            [] Head(s) = "\n" -> <<"\\", "n">>
            [] OTHER -> <<Head(s)>>) \o EncodeStr(Tail(s))

\* json.dumps(v, ensure_ascii=False) of a str, a number or a list; the item
\* separator is ", "
RECURSIVE Dumps(_)
RECURSIVE DumpsItems(_)
DumpsItems(l) ==
    IF l = <<>>
    THEN <<>>
    ELSE IF Len(l) = 1
    THEN Dumps(l[1])
    ELSE Dumps(l[1]) \o <<",", " ">> \o DumpsItems(Tail(l))

Dumps(v) ==
    CASE IsStr(v) -> <<"\"">> \o EncodeStr(v.str) \o <<"\"">>
      [] IsNum(v) -> <<v.num>>
      [] IsArr(v) -> <<"[">> \o DumpsItems(v.arr) \o <<"]">>

---------------------------------------------------------------------------
(* agent.py: the three copies of the fence-stripping code.  Python indexes *)
(* from 0: split(..)[1] is the second piece, split(..)[0] the first.       *)

AnalyzeFoodTool_json_str(c) ==
    IF In(JsonFence, c)
    THEN Strip(Split(Split(c, JsonFence)[2], Fence)[1])
    ELSE IF In(Fence, c)
    THEN Strip(Split(Split(c, Fence)[2], Fence)[1])
    ELSE Strip(c)

NutritionCalculatorTool_json_str(c) ==
    IF In(JsonFence, c)
    THEN Strip(Split(Split(c, JsonFence)[2], Fence)[1])
    ELSE IF In(Fence, c)
    THEN Strip(Split(Split(c, Fence)[2], Fence)[1])
    ELSE Strip(c)

\* a copy that lost its first tier
DishComparisonTool_json_str_NoJsonTier(c) ==
    IF In(Fence, c)
    THEN Strip(Split(Split(c, Fence)[2], Fence)[1])
    ELSE Strip(c)

DishComparisonTool_json_str(c) ==
    IF In(JsonFence, c)
    THEN Strip(Split(Split(c, JsonFence)[2], Fence)[1])
    ELSE IF In(Fence, c)
    THEN Strip(Split(Split(c, Fence)[2], Fence)[1])
    ELSE Strip(c)

ToolJsonStr(t, c) ==
    CASE t = "analyze_food_image" -> AnalyzeFoodTool_json_str(c)
      [] t = "calculate_nutrition" -> NutritionCalculatorTool_json_str(c)
      [] t = "compare_dishes" -> DishComparisonTool_json_str(c)

\* client.chat.completions.create(...) followed by the extraction: api is
\* what the model invocation does, Return(content) or Raise(e)
AnalyzeFoodTool_call(api) ==
    IF Raised(api) THEN api ELSE Loads(AnalyzeFoodTool_json_str(api.ret))

NutritionCalculatorTool_call(api) ==
    IF Raised(api) THEN api ELSE Loads(NutritionCalculatorTool_json_str(api.ret))

DishComparisonTool_call(api) ==
    IF Raised(api) THEN api ELSE Loads(DishComparisonTool_json_str(api.ret))

---------------------------------------------------------------------------
(* agent.py: FoodAnalyzerAgent *)

\* v[k] for a str key k
GetItem(v, k) ==
    CASE IsObj(v) ->
            IF Key(k) \in DOMAIN v.obj
            THEN Return(v.obj[Key(k)])
            ELSE Raise(Exc("KeyError", <<"'", k, "'">>))
      [] IsArr(v) ->
            Raise(Exc("TypeError", <<"list indices must be integers or slices, not str">>))
      [] IsStr(v) ->
            Raise(Exc("TypeError", <<"string indices must be integers, not 'str'">>))
      [] IsNum(v) ->
            Raise(Exc("TypeError", <<"'int' object is not subscriptable">>))

\* prediction.rationale if hasattr(prediction, 'rationale') else None
Rationale(prediction) ==
    IF "rationale" \in DOMAIN prediction THEN prediction.rationale ELSE None

\* the handler missing: the exception goes on to the caller
ExceptException_Missing(o) == o

\* except Exception as e: return {"success": False, "error": str(e)}
ExceptException(o) ==
    IF Raised(o) THEN Return([success |-> FALSE, error |-> o.exc.msg]) ELSE o

\* the try block of analyze_image; cot is what the ChainOfThought call does,
\* Return(prediction) or Raise(e)
analyze_image_try(api, cot) ==
    LET raw_result == AnalyzeFoodTool_call(api)
    IN  IF Raised(raw_result)
        THEN raw_result
        ELSE LET dish_name == GetItem(raw_result.ret, "dish_name")
                 ingredients == GetItem(raw_result.ret, "ingredients")
                 recipe_steps == GetItem(raw_result.ret, "recipe_steps")
                 fun_facts == GetItem(raw_result.ret, "fun_facts")
             IN  IF Raised(dish_name) THEN dish_name
                 ELSE IF Raised(cot) THEN cot
                 ELSE IF Raised(ingredients) THEN ingredients
                 ELSE IF Raised(recipe_steps) THEN recipe_steps
                 ELSE IF Raised(fun_facts) THEN fun_facts
                 ELSE Return([success |-> TRUE,
                              dish_name |-> dish_name.ret,
                              ingredients |-> ingredients.ret,
                              recipe_steps |-> recipe_steps.ret,
                              fun_facts |-> fun_facts.ret,
                              agent_reasoning |-> Rationale(cot.ret),
                              tool_used |-> "analyze_food_image"])

analyze_image(api, cot) == ExceptException(analyze_image_try(api, cot))

get_nutrition_try(dish_name, api, cot) ==
    LET nutrition_data == NutritionCalculatorTool_call(api)
    IN  IF Raised(nutrition_data) THEN nutrition_data
        ELSE IF Raised(cot) THEN cot
        ELSE Return([success |-> TRUE,
                     dish_name |-> dish_name,
                     nutrition |-> nutrition_data.ret,
                     agent_reasoning |-> Rationale(cot.ret),
                     tool_used |-> "calculate_nutrition"])

\* a handler that answers a failure with a placeholder record
get_nutrition_Placeholder(dish_name, api, cot) ==
    LET o == get_nutrition_try(dish_name, api, cot)
    IN  IF Raised(o)
        THEN Return([success |-> FALSE, error |-> o.exc.msg, dish_name |-> dish_name,
                     nutrition |-> JObj(<<>>)])
        ELSE o

get_nutrition(dish_name, api, cot) ==
    ExceptException(get_nutrition_try(dish_name, api, cot))

compare_try(api, cot) ==
    LET comparison_data == DishComparisonTool_call(api)
    IN  IF Raised(comparison_data) THEN comparison_data
        ELSE IF Raised(cot) THEN cot
        ELSE Return([success |-> TRUE,
                     comparison |-> comparison_data.ret,
                     agent_reasoning |-> Rationale(cot.ret),
                     tool_used |-> "compare_dishes"])

compare(api, cot) == ExceptException(compare_try(api, cot))

---------------------------------------------------------------------------
(* SpecExtract: the extraction code applied to every reply made of at most *)
(* MaxSegments segments.                                                   *)

Segments == {Fence, <<BT>>, <<"json">>, <<"x">>, <<" ">>}

RECURSIVE Concats(_)
Concats(n) ==
    IF n = 0
    THEN {<<>>}
    ELSE LET shorter == Concats(n - 1)
         IN  shorter \cup {c \o s : c \in shorter, s \in Segments}

Contents == Concats(MaxSegments)

InitExtract ==
    /\ content \in Contents
    /\ tool = None
    /\ json_str = None
    /\ AgentIdle
    /\ DbIdle
    /\ ApiIdle

RunAnalyzeFoodTool ==
    /\ tool = None
    /\ tool' = "analyze_food_image"
    /\ json_str' = AnalyzeFoodTool_json_str(content)
    /\ UNCHANGED <<content, agentVars, dbVars, apiVars>>

RunNutritionCalculatorTool ==
    /\ tool = None
    /\ tool' = "calculate_nutrition"
    /\ json_str' = NutritionCalculatorTool_json_str(content)
    /\ UNCHANGED <<content, agentVars, dbVars, apiVars>>

RunDishComparisonTool ==
    /\ tool = None
    /\ tool' = "compare_dishes"
    /\ json_str' = DishComparisonTool_json_str(content)
    /\ UNCHANGED <<content, agentVars, dbVars, apiVars>>

NextExtract ==
    \/ RunAnalyzeFoodTool
    \/ RunNutritionCalculatorTool
    \/ RunDishComparisonTool

SpecExtract == InitExtract /\ [][NextExtract]_vars

---------------------------------------------------------------------------
(* SpecAgent: calls of analyze_image, get_nutrition and compare.  A call    *)
(* names what the environment does during it: the model invocation returns *)
(* a reply or raises, and so does the ChainOfThought call.                  *)

Q == "\""

DishAnalysisFields == <<"dish_name", "ingredients", "recipe_steps", "fun_facts">>
NutritionEstimateFields ==
    <<"serving_size", "calories", "proteins", "carbs", "fats", "fiber", "notes">>
DishComparisonFields ==
    <<"similarity_score", "common_ingredients", "unique_to_dish1", "unique_to_dish2",
      "culinary_relationship", "cultural_context", "key_differences">>

Ops == {"analyze_image", "get_nutrition", "compare"}

\* the fields the prompt of each operation asks the model for
Fields(op) ==
    CASE op = "analyze_image" -> DishAnalysisFields
      [] op = "get_nutrition" -> NutritionEstimateFields
      [] op = "compare" -> DishComparisonFields

Range(f) == {f[i] : i \in DOMAIN f}

Words(l) == JArr([i \in DOMAIN l |-> JStr(<<l[i]>>)])

\* an entity is the sequence of its <<field, value>> pairs, in the order the
\* reply lists them.  text is a string value of the entity.
DishAnalysis(text) ==
    << <<"dish_name", JStr(text)>>,
       <<"ingredients", Words(<<"x", "y">>)>>,
       <<"recipe_steps", Words(<<"y">>)>>,
       <<"fun_facts", Words(<<"x">>)>> >>

NutritionEstimate(text) ==
    << <<"serving_size", JStr(<<"x">>)>>,
       <<"calories", JNum("70")>>,
       <<"proteins", JNum("2")>>,
       <<"carbs", JNum("1")>>,
       <<"fats", JNum("0")>>,
       <<"fiber", JNum("1")>>,
       <<"notes", JStr(text)>> >>

DishComparison(text) ==
    << <<"similarity_score", JNum("70")>>,
       <<"common_ingredients", Words(<<"x">>)>>,
       <<"unique_to_dish1", Words(<<>>)>>,
       <<"unique_to_dish2", Words(<<"y">>)>>,
       <<"culinary_relationship", JStr(text)>>,
       <<"cultural_context", JStr(<<"y">>)>>,
       <<"key_differences", Words(<<"x", "y">>)>> >>

Entity(op, text) ==
    CASE op = "analyze_image" -> DishAnalysis(text)
      [] op = "get_nutrition" -> NutritionEstimate(text)
      [] op = "compare" -> DishComparison(text)

\* string values: a plain one, and one that holds a fence delimiter
Texts == {<<"x">>, <<"x", BT, BT, BT, "y">>}

Without(entity, field) == SelectSeq(entity, LAMBDA p : p[1] # field)

\* the entities a reply may carry: complete, or lacking one field
Entities(op) ==
    {Entity(op, t) : t \in Texts}
        \cup {Without(Entity(op, <<"x">>), f) : f \in Range(Fields(op))}

FieldsOf(entity) == {entity[i][1] : i \in DOMAIN entity}

ValueOf(entity, field) ==
    entity[CHOOSE i \in DOMAIN entity : entity[i][1] = field][2]

\* the entity written out as the model writes a payload
RECURSIVE PayloadMembers(_)
PayloadMembers(entity) ==
    IF entity = <<>>
    THEN <<>>
    ELSE <<Q, entity[1][1], Q, ":", " ">> \o Dumps(entity[1][2])
            \o (IF Len(entity) = 1 THEN <<>> ELSE <<",", "\n">>)
            \o PayloadMembers(Tail(entity))

PayloadText(entity) == <<"{">> \o PayloadMembers(entity) \o <<"}">>

Wrappers == {"bare", "json", "generic", "prose_bare", "prose_json", "prose_generic"}

Prose(w) == w \in {"prose_bare", "prose_json", "prose_generic"}

Fenced(w, payload) ==
    CASE w \in {"bare", "prose_bare"} -> payload
      [] w \in {"json", "prose_json"} -> JsonFence \o <<"\n">> \o payload \o <<"\n">> \o Fence
      [] w \in {"generic", "prose_generic"} -> Fence \o <<"\n">> \o payload \o <<"\n">> \o Fence

\* the reply that carries payload in form w
Wrap(w, payload) ==
    IF Prose(w)
    THEN <<"x", " ", "y", "\n">> \o Fenced(w, payload) \o <<"\n", "x">>
    ELSE Fenced(w, payload)

\* replies that carry no payload
Garbage == {<<>>, <<"x", " ", "y">>, <<"{", Q, "x">>, JsonFence \o <<"x">> \o Fence}

\* what the model invocation raises: a timeout, a quota error, a bad request
InvocationErrors ==
    { Exc("APITimeoutError", <<"Request timed out.">>),
      Exc("RateLimitError", <<"Error code: 429">>),
      Exc("BadRequestError", <<"Error code: 400">>) }

\* what the ChainOfThought call does
Predictions ==
    { Return([rationale |-> "r"]),
      Return([reasoning |-> "r"]),
      Raise(Exc("RuntimeError", <<"ChainOfThought failed">>)) }

NoEntity == <<>>

\* made records how the reply was made: "payload" (entity written out and
\* wrapped), "garbage", or "raise" (the invocation fails)
Call(op, api, cot, made, entity, wrapper) ==
    [op |-> op, dish_name |-> JStr(<<"y">>), api |-> api, cot |-> cot,
     made |-> made, entity |-> entity, wrapper |-> wrapper]

\* a reply that parses but is no dict
OtherValues == {Dumps(Words(<<"x">>))}

RequestsOf(op) ==
    {Call(op, Return(Wrap(w, PayloadText(e))), cot, "payload", e, w) :
        e \in Entities(op), w \in Wrappers, cot \in Predictions}
    \cup {Call(op, Return(g), cot, "garbage", NoEntity, "none") :
            g \in Garbage, cot \in Predictions}
    \cup {Call(op, Return(v), cot, "value", NoEntity, "none") :
            v \in OtherValues, cot \in Predictions}
    \cup {Call(op, Raise(e), cot, "raise", NoEntity, "none") :
            e \in InvocationErrors, cot \in Predictions}

Requests == UNION {RequestsOf(op) : op \in Ops}

\* what the agent answers a call with
Answer(r) ==
    CASE r.op = "analyze_image" -> analyze_image(r.api, r.cot)
      [] r.op = "get_nutrition" -> get_nutrition(r.dish_name, r.api, r.cot)
      [] r.op = "compare" -> compare(r.api, r.cot)

InitAgent ==
    /\ ExtractIdle
    /\ request = <<>>
    /\ result = <<>>
    /\ last_invocation_failure = <<>>
    /\ DbIdle
    /\ ApiIdle

\* a caller calls the agent
Arrive ==
    /\ request = <<>> \/ result # <<>>
    /\ \E r \in Requests : request' = <<r>>
    /\ result' = <<>>
    /\ UNCHANGED <<extractVars, dbVars, apiVars, last_invocation_failure>>

Pending(op) ==
    /\ request # <<>>
    /\ result = <<>>
    /\ request[1].op = op

Answered(o) ==
    /\ result' = <<o>>
    /\ last_invocation_failure' =
           IF Raised(request[1].api) THEN <<o>> ELSE last_invocation_failure
    /\ UNCHANGED <<extractVars, dbVars, apiVars, request>>

AnalyzeImage ==
    /\ Pending("analyze_image")
    /\ Answered(analyze_image(request[1].api, request[1].cot))

GetNutrition ==
    /\ Pending("get_nutrition")
    /\ Answered(get_nutrition(request[1].dish_name, request[1].api, request[1].cot))

Compare ==
    /\ Pending("compare")
    /\ Answered(compare(request[1].api, request[1].cot))

NextAgent ==
    \/ Arrive
    \/ AnalyzeImage
    \/ GetNutrition
    \/ Compare

SpecAgent == InitAgent /\ [][NextAgent]_vars

---------------------------------------------------------------------------
(* database.py.  The table food_analyses is a function from id to row; a   *)
(* row holds dish_name as given and the three lists as the text json.dumps *)
(* made of them.  Handlers are coroutines that never await between their   *)
(* database calls, so each call below runs as one step.                    *)

\* an insert that binds recipe_steps and fun_facts the other way round
InsertRow_SwappedLists(table, id, dish_name, ingredients, recipe_steps, fun_facts, now) ==
    (id :> [id |-> id,
            dish_name |-> dish_name,
            ingredients |-> Dumps(ingredients),
            recipe_steps |-> Dumps(fun_facts),
            fun_facts |-> Dumps(recipe_steps),
            image_hash |-> None,
            created_at |-> now]) @@ table

\* INSERT INTO food_analyses (...) VALUES (...): id INTEGER PRIMARY KEY
\* AUTOINCREMENT takes the next number after the largest ever given out,
\* created_at DEFAULT CURRENT_TIMESTAMP the clock
InsertRow(table, id, dish_name, ingredients, recipe_steps, fun_facts, now) ==
    (id :> [id |-> id,
            dish_name |-> dish_name,
            ingredients |-> Dumps(ingredients),
            recipe_steps |-> Dumps(recipe_steps),
            fun_facts |-> Dumps(fun_facts),
            image_hash |-> None,
            created_at |-> now]) @@ table

\* save_analysis: the table and the sequence after it, and cursor.lastrowid
save_analysis(table, seq, dish_name, ingredients, recipe_steps, fun_facts, now) ==
    [rows |-> InsertRow(table, seq + 1, dish_name, ingredients, recipe_steps,
                        fun_facts, now),
     sqlite_sequence |-> seq + 1,
     lastrowid |-> seq + 1]

\* the dict get_analysis_by_id makes of a row: ingredients, recipe_steps and
\* fun_facts are what json.loads does with the stored texts, in this order
AnalysisDict(row, ingredients, recipe_steps, fun_facts) ==
    IF Raised(ingredients) THEN ingredients
    ELSE IF Raised(recipe_steps) THEN recipe_steps
    ELSE IF Raised(fun_facts) THEN fun_facts
    ELSE Return(<<[id |-> row.id,
                   dish_name |-> row.dish_name,
                   ingredients |-> ingredients.ret,
                   recipe_steps |-> recipe_steps.ret,
                   fun_facts |-> fun_facts.ret,
                   created_at |-> row.created_at]>>)

\* get_analysis_by_id: the dict of the row, None when there is no such row;
\* it raises when a stored list does not parse
get_analysis_by_id(table, analysis_id) ==
    IF analysis_id \notin DOMAIN table
    THEN Return(<<>>)
    ELSE AnalysisDict(table[analysis_id],
                      Loads(table[analysis_id].ingredients),
                      Loads(table[analysis_id].recipe_steps),
                      Loads(table[analysis_id].fun_facts))

\* ORDER BY created_at DESC: the orders in which SQLite may hand out the
\* rows.  Rows of the same second are in no defined order.
OrderByCreatedAtDesc(table) ==
    LET n == Cardinality(DOMAIN table)
    IN  {o \in [1..n -> DOMAIN table] :
            /\ \A i, j \in 1..n : i # j => o[i] # o[j]
            /\ \A i, j \in 1..n : i < j => table[o[i]].created_at >= table[o[j]].created_at}

\* a limit that lets one row too many through
Limit_OneMore(seq, limit) ==
    IF limit < 0 \/ limit + 1 >= Len(seq) THEN seq ELSE SubSeq(seq, 1, limit + 1)

\* LIMIT ?: a negative limit is no limit
Limit(seq, limit) ==
    IF limit < 0 \/ limit >= Len(seq) THEN seq ELSE SubSeq(seq, 1, limit)

\* the dict get_analysis_history and get_all_analyses make of a row
HistoryEntry(row) ==
    [id |-> row.id,
     dish_name |-> row.dish_name,
     ingredients |-> Loads(row.ingredients).ret,
     created_at |-> row.created_at]

\* get_analysis_history: the lists it may return
get_analysis_history(table, limit) ==
    {[i \in DOMAIN Limit(o, limit) |-> HistoryEntry(table[o[i]])] :
        o \in OrderByCreatedAtDesc(table)}

\* get_all_analyses: the lists it may return
get_all_analyses(table) ==
    {[i \in DOMAIN o |-> HistoryEntry(table[o[i]])] : o \in OrderByCreatedAtDesc(table)}

\* food_analyzer_api.get_history: the body of the 200 response
get_history(history) == [history |-> history, count |-> Len(history)]

---------------------------------------------------------------------------
(* Spec: the database under save_analysis, the lookups and the clock *)

\* the analyses a caller saves: plain words, and strings that json.dumps
\* has to escape
Analyses ==
    { [dish_name |-> <<"x">>,
       ingredients |-> Words(<<"x", "y">>),
       recipe_steps |-> Words(<<"y">>),
       fun_facts |-> Words(<<>>)],
      [dish_name |-> <<"y", Q>>,
       ingredients |-> JArr(<<JStr(<<"x", Q, "\\", "\n">>)>>),
       recipe_steps |-> Words(<<"y", "x">>),
       fun_facts |-> Words(<<"x">>)] }

Limits == (0 - MaxLimit) .. MaxLimit

Init ==
    /\ ExtractIdle
    /\ AgentIdle
    /\ ApiIdle
    /\ rows = <<>>
    /\ sqlite_sequence = 0
    /\ clock = 0
    /\ response = <<>>
    /\ saves = <<>>

Responded(op, arg, ret) == response' = <<[op |-> op, arg |-> arg, ret |-> ret]>>

SaveAnalysis ==
    /\ Len(saves) < MaxSaves
    /\ \E a \in Analyses :
        LET done == save_analysis(rows, sqlite_sequence, a.dish_name, a.ingredients,
                                  a.recipe_steps, a.fun_facts, clock)
        IN  /\ rows' = done.rows
            /\ sqlite_sequence' = done.sqlite_sequence
            /\ saves' = Append(saves, [id |-> done.lastrowid, analysis |-> a])
            /\ Responded("save_analysis", 0, done.lastrowid)
    /\ UNCHANGED <<extractVars, agentVars, apiVars, clock>>

GetAnalysisById ==
    /\ \E analysis_id \in 0 .. MaxSaves + 1 :
        Responded("get_analysis_by_id", analysis_id, get_analysis_by_id(rows, analysis_id))
    /\ UNCHANGED <<extractVars, agentVars, apiVars, rows, sqlite_sequence, clock, saves>>

GetHistory ==
    /\ \E limit \in Limits :
        \E history \in get_analysis_history(rows, limit) :
            Responded("get_history", limit, get_history(history))
    /\ UNCHANGED <<extractVars, agentVars, apiVars, rows, sqlite_sequence, clock, saves>>

GetAllAnalyses ==
    /\ \E all \in get_all_analyses(rows) : Responded("get_all_analyses", 0, all)
    /\ UNCHANGED <<extractVars, agentVars, apiVars, rows, sqlite_sequence, clock, saves>>

\* a second passes
Tick ==
    /\ clock < MaxClock
    /\ clock' = clock + 1
    /\ UNCHANGED <<extractVars, agentVars, apiVars, rows, sqlite_sequence, response, saves>>

Next ==
    \/ SaveAnalysis
    \/ GetAnalysisById
    \/ GetHistory
    \/ GetAllAnalyses
    \/ Tick

Spec == Init /\ [][Next]_vars

---------------------------------------------------------------------------
(* agent.py: the singleton.  food_analyzer_api.py and tools.py: the         *)
(* handlers and the functions they call.  Every handler is a coroutine on   *)
(* one event loop, and the only await of any of them (file.read(), line 61  *)
(* of food_analyzer_api.py) comes before its first use of the agent or the  *)
(* database, so handlers interleave as whole steps and a get_agent call is  *)
(* never interrupted by another.  The process environment is read by        *)
(* load_dotenv at import and nothing changes it afterwards.                 *)

\* a call made by a function, with what it returned or raised
Called(name, outcome) == [call |-> name, outcome |-> outcome]

\* what a function that uses the agent did: its outcome, the calls it made
\* in order, and the singleton after it
DoneAgent(out, calls, instance, made) ==
    [out |-> out, calls |-> calls, _agent_instance |-> instance, constructed |-> made]

\* the same for a function that is handed the database connection as well
Done(out, calls, instance, made, table, seq) ==
    [out |-> out, calls |-> calls, _agent_instance |-> instance,
     constructed |-> made, rows |-> table, sqlite_sequence |-> seq]

\* FoodAnalyzerAgent(): the n-th agent made.  _agent_instance is <<>> for
\* None and <<agent>> once an agent is stored.
FoodAnalyzerAgent(n) == [agent |-> n]

\* a get_agent that makes a new agent at every call
get_agent_NoCheck(instance, made, api_key, init) ==
    IF api_key \in {None, ""}
    THEN [out |-> Raise(Exc("ValueError",
                            <<"OPENAI_API_KEY not found in environment variables">>)),
          _agent_instance |-> instance, constructed |-> made]
    ELSE IF Raised(init)
    THEN [out |-> init, _agent_instance |-> instance, constructed |-> made]
    ELSE [out |-> Return(FoodAnalyzerAgent(made + 1)),
          _agent_instance |-> <<FoodAnalyzerAgent(made + 1)>>,
          constructed |-> made + 1]

\* get_agent(): instance is _agent_instance, made the number of agents made
\* so far, api_key what os.getenv returns ("None" when the variable is not
\* set), init what dspy.LM, dspy.configure and FoodAnalyzerAgent() do:
\* Return(None) or Raise(e)
get_agent(instance, made, api_key, init) ==
    IF instance = <<>>
    THEN IF api_key \in {None, ""}
         THEN [out |-> Raise(Exc("ValueError",
                                 <<"OPENAI_API_KEY not found in environment variables">>)),
               _agent_instance |-> instance, constructed |-> made]
         ELSE IF Raised(init)
         THEN [out |-> init, _agent_instance |-> instance, constructed |-> made]
         ELSE [out |-> Return(FoodAnalyzerAgent(made + 1)),
               _agent_instance |-> <<FoodAnalyzerAgent(made + 1)>>,
               constructed |-> made + 1]
    ELSE [out |-> Return(instance[1]), _agent_instance |-> instance,
          constructed |-> made]

\* the methods and attributes FoodAnalyzerAgent defines or sets in __init__
FoodAnalyzerAgentAttributes ==
    {"analyze_tool", "nutrition_tool", "comparison_tool", "analyze_food",
     "calculate_nutrition", "compare_dishes", "analyze_image", "get_nutrition",
     "compare"}

\* agent.<name>
GetAttr(name) ==
    IF name \in FoodAnalyzerAgentAttributes
    THEN Return(name)
    ELSE Raise(Exc("AttributeError",
                   <<"'FoodAnalyzerAgent' object has no attribute '", name, "'">>))

\* result.get(key, default)
DictGet(dict, key, default) == IF key \in DOMAIN dict THEN dict[key] ELSE default

\* raise Exception(f"Agent error: {result.get('error', 'Unknown error')}")
AgentError(agent_result) ==
    Raise(Exc("Exception", <<"Agent error: ">> \o DictGet(agent_result, "error", <<"Unknown error">>)))

\* tools.get_ingredient_substitutes: substitutes is what a get_substitutes
\* method of the agent would return if the agent had one
get_ingredient_substitutes(ingredient, instance, made, api_key, init, substitutes) ==
    LET got == get_agent(instance, made, api_key, init)
        first == <<Called("get_agent", got.out)>>
        method == GetAttr("get_substitutes")
        calls == Append(first, Called("get_substitutes", method))
        here(out, cs) == DoneAgent(out, cs, got._agent_instance, got.constructed)
    IN  IF Raised(got.out) THEN here(got.out, first)
        ELSE IF Raised(method) THEN here(method, calls)
        ELSE IF substitutes.success
        THEN here(Return([ingredient |-> substitutes.ingredient,
                          category |-> DictGet(substitutes, "category", <<"general">>),
                          substitutes |-> substitutes.substitutes,
                          agent_reasoning |-> DictGet(substitutes, "agent_reasoning", None),
                          source |-> "agent"]), calls)
        ELSE here(AgentError(substitutes), calls)

\* a response: the status and the body; the body of an error is its detail
Response(status, body) == [status |-> status, body |-> body]

\* raise HTTPException(status_code=..., detail=...)
HTTPException(status_code, detail) == Response(status_code, [detail |-> detail])

\* except Exception as e: raise HTTPException(status_code=500,
\* detail=f"<prefix>{str(e)}")
Error500(prefix, e) == HTTPException(500, <<prefix>> \o e.msg)

\* try: result = f(...); return result
\* except Exception as e: raise HTTPException(status_code=500, ...)
\* where done is what f did
ReturnOrError500(done, prefix) ==
    [done EXCEPT !.out =
        IF Raised(done.out)
        THEN Error500(prefix, done.out.exc)
        ELSE Response(200, done.out.ret)]

\* food_analyzer_api.get_substitutes
get_substitutes(ingredient, instance, made, api_key, init, substitutes) ==
    ReturnOrError500(get_ingredient_substitutes(ingredient, instance, made, api_key,
                                                init, substitutes),
                     "Error al buscar sustitutos: ")

\* a function that tests the second analysis first
compare_dishes_from_db_SecondFirst(analysis_id1, analysis_id2, analysis1, analysis2, got, table, seq, instance, made, agent_result) ==
    LET one == <<Called("get_analysis_by_id", analysis1)>>
        two == Append(one, Called("get_analysis_by_id", analysis2))
        three == Append(two, Called("get_agent", got.out))
        four == Append(three, Called("compare", agent_result))
        before(out, cs) == Done(out, cs, instance, made, table, seq)
        after(out, cs) == Done(out, cs, got._agent_instance, got.constructed, table, seq)
        NotFound(id) ==
            Raise(Exc("Exception", <<"Analisis con ID ", ToString(id), " no encontrado">>))
    IN  IF Raised(analysis1) THEN before(analysis1, one)
        ELSE IF Raised(analysis2) THEN before(analysis2, two)
        ELSE IF analysis2.ret = <<>> THEN before(NotFound(analysis_id2), two)
        ELSE IF analysis1.ret = <<>> THEN before(NotFound(analysis_id1), two)
        ELSE IF Raised(got.out) THEN after(got.out, three)
        ELSE IF Raised(agent_result) THEN after(agent_result, four)
        ELSE IF agent_result.ret.success
        THEN after(Return([dish1 |-> [id |-> analysis1.ret[1].id,
                                      name |-> analysis1.ret[1].dish_name,
                                      ingredients |-> analysis1.ret[1].ingredients],
                           dish2 |-> [id |-> analysis2.ret[1].id,
                                      name |-> analysis2.ret[1].dish_name,
                                      ingredients |-> analysis2.ret[1].ingredients],
                           comparison |-> agent_result.ret.comparison,
                           agent_reasoning |->
                               DictGet(agent_result.ret, "agent_reasoning", None),
                           source |-> "database"]), four)
        ELSE after(AgentError(agent_result.ret), four)

\* tools.compare_dishes_from_db from line 78 on: analysis1 and analysis2 are
\* what the two lookups returned, got is what get_agent() does when it is
\* called and agent_result what agent.compare returns when it is called.
\* The message is the source's without the accent of its first word.  The
\* stored ingredients are lists of str or a str, which the join of
\* agent.compare accepts.
compare_dishes_from_db_checked(analysis_id1, analysis_id2, analysis1, analysis2, got, table, seq, instance, made, agent_result) ==
    LET one == <<Called("get_analysis_by_id", analysis1)>>
        two == Append(one, Called("get_analysis_by_id", analysis2))
        three == Append(two, Called("get_agent", got.out))
        four == Append(three, Called("compare", agent_result))
        before(out, cs) == Done(out, cs, instance, made, table, seq)
        after(out, cs) == Done(out, cs, got._agent_instance, got.constructed, table, seq)
        NotFound(id) ==
            Raise(Exc("Exception", <<"Analisis con ID ", ToString(id), " no encontrado">>))
    IN  IF Raised(analysis1) THEN before(analysis1, one)
        ELSE IF Raised(analysis2) THEN before(analysis2, two)
        ELSE IF analysis1.ret = <<>> THEN before(NotFound(analysis_id1), two)
        ELSE IF analysis2.ret = <<>> THEN before(NotFound(analysis_id2), two)
        ELSE IF Raised(got.out) THEN after(got.out, three)
        ELSE IF Raised(agent_result) THEN after(agent_result, four)
        ELSE IF agent_result.ret.success
        THEN after(Return([dish1 |-> [id |-> analysis1.ret[1].id,
                                      name |-> analysis1.ret[1].dish_name,
                                      ingredients |-> analysis1.ret[1].ingredients],
                           dish2 |-> [id |-> analysis2.ret[1].id,
                                      name |-> analysis2.ret[1].dish_name,
                                      ingredients |-> analysis2.ret[1].ingredients],
                           comparison |-> agent_result.ret.comparison,
                           agent_reasoning |->
                               DictGet(agent_result.ret, "agent_reasoning", None),
                           source |-> "database"]), four)
        ELSE after(AgentError(agent_result.ret), four)

\* tools.compare_dishes_from_db: the two lookups of lines 75 and 76, then
\* the rest
compare_dishes_from_db(analysis_id1, analysis_id2, table, seq, instance, made, api_key, init, agent_result) ==
    compare_dishes_from_db_checked(analysis_id1, analysis_id2,
                                   get_analysis_by_id(table, analysis_id1),
                                   get_analysis_by_id(table, analysis_id2),
                                   get_agent(instance, made, api_key, init),
                                   table, seq, instance, made, agent_result)

\* food_analyzer_api.compare_two_dishes
compare_two_dishes(analysis_id1, analysis_id2, table, seq, instance, made, api_key, init, agent_result) ==
    ReturnOrError500(compare_dishes_from_db(analysis_id1, analysis_id2, table, seq,
                                            instance, made, api_key, init, agent_result),
                     "Error al comparar platos: ")

\* a handler whose generic except clause also takes the HTTPException
get_analysis_NoReraise(analysis) ==
    IF Raised(analysis)
    THEN Error500("Error al obtener analisis: ", analysis.exc)
    ELSE IF analysis.ret = <<>>
    THEN Error500("Error al obtener analisis: ",
                  Exc("HTTPException", <<"404: Analisis no encontrado">>))
    ELSE Response(200, analysis.ret[1])

\* food_analyzer_api.get_analysis from line 205 on: analysis is what
\* db.get_analysis_by_id did.  The 404 raised in the try block is re-raised
\* by except HTTPException, any other exception becomes a 500.  The
\* messages are the source's without the accent of "Analisis".
get_analysis_answer(analysis) ==
    IF Raised(analysis)
    THEN Error500("Error al obtener analisis: ", analysis.exc)
    ELSE IF analysis.ret = <<>>
    THEN HTTPException(404, <<"Analisis no encontrado">>)
    ELSE Response(200, analysis.ret[1])

\* food_analyzer_api.get_analysis
get_analysis(table, analysis_id) ==
    get_analysis_answer(get_analysis_by_id(table, analysis_id))

\* isinstance of list[str] as pydantic validates it: a list whose items
\* are all str
IsListOfStr(v) == IsArr(v) /\ \A i \in DOMAIN v.arr : IsStr(v.arr[i])

\* pydantic's ValidationError; str(e) is cut to its first line
ValidationError(model) == Exc("ValidationError", <<"validation error for ", model>>)

\* a model that takes its two lists the other way round
Recipe_Swapped(ingredientes, pasos) ==
    IF IsListOfStr(ingredientes) /\ IsListOfStr(pasos)
    THEN Return([ingredientes |-> pasos, pasos |-> ingredientes])
    ELSE Raise(ValidationError("Recipe"))

\* Recipe(ingredientes=..., pasos=...)
Recipe(ingredientes, pasos) ==
    IF IsListOfStr(ingredientes) /\ IsListOfStr(pasos)
    THEN Return([ingredientes |-> ingredientes, pasos |-> pasos])
    ELSE Raise(ValidationError("Recipe"))

\* FoodAnalysisResponse(nombre_plato=..., receta=..., datos_curiosos=...)
FoodAnalysisResponse(nombre_plato, receta, datos_curiosos) ==
    IF IsStr(nombre_plato) /\ IsListOfStr(datos_curiosos)
    THEN Return([nombre_plato |-> nombre_plato, receta |-> receta,
                 datos_curiosos |-> datos_curiosos])
    ELSE Raise(ValidationError("FoodAnalysisResponse"))

\* cursor.execute binding dish_name to the TEXT NOT NULL column: a str is
\* stored as it is, a number as its text, a list or a dict cannot be bound
\* (an sqlite3.Error whose class and text depend on the Python version)
Bind(v) ==
    CASE IsStr(v) -> Return(v.str)
      [] IsNum(v) -> Return(<<v.num>>)
      [] OTHER -> Raise(Exc("sqlite3.Error", <<"Error binding parameter">>))

\* the exception raise HTTPException(...) raises inside a try block
RaiseHTTPException(status_code, detail) ==
    Raise([type |-> "HTTPException", msg |-> detail, status_code |-> status_code])

\* the try block of analyze_food (lines 78 - 108); agent_result is what
\* agent.analyze_image returns when it is called
analyze_food_try(table, seq, now, instance, made, api_key, init, agent_result) ==
    LET got == get_agent(instance, made, api_key, init)
        one == <<Called("get_agent", got.out)>>
        two == Append(one, Called("analyze_image", agent_result))
        dish_name == Bind(agent_result.ret.dish_name)
        saved == save_analysis(table, seq, dish_name.ret, agent_result.ret.ingredients,
                               agent_result.ret.recipe_steps, agent_result.ret.fun_facts,
                               now)
        three == Append(two, Called("save_analysis",
                                    IF Raised(dish_name) THEN dish_name
                                    ELSE Return(saved.lastrowid)))
        receta == Recipe(agent_result.ret.ingredients, agent_result.ret.recipe_steps)
        body == FoodAnalysisResponse(agent_result.ret.dish_name, receta.ret,
                                     agent_result.ret.fun_facts)
        unsaved(out, cs) ==
            Done(out, cs, got._agent_instance, got.constructed, table, seq)
        stored(out) ==
            Done(out, three, got._agent_instance, got.constructed, saved.rows,
                 saved.sqlite_sequence)
    IN  IF Raised(got.out) THEN unsaved(got.out, one)
        ELSE IF Raised(agent_result) THEN unsaved(agent_result, two)
        ELSE IF ~agent_result.ret.success
        THEN unsaved(RaiseHTTPException(500,
                        <<"Error del agente: ">>
                            \o DictGet(agent_result.ret, "error", <<"Unknown error">>)),
                     two)
        ELSE IF Raised(dish_name) THEN unsaved(dish_name, three)
        ELSE IF Raised(receta) THEN stored(receta)
        ELSE stored(body)

\* the except clauses of analyze_food (lines 110 - 116): done is what the
\* try block did
analyze_food_except(done) ==
    [done EXCEPT !.out =
        IF ~Raised(done.out)
        THEN Response(200, done.out.ret)
        ELSE IF done.out.exc.type = "HTTPException"
        THEN HTTPException(done.out.exc.status_code, done.out.exc.msg)
        ELSE Error500("Error al analizar la imagen: ", done.out.exc)]

\* what the server answers when an exception leaves a handler
ServerError == Response(500, [detail |-> <<"Internal Server Error">>])

\* food_analyzer_api.analyze_food.  file.content_type is <<>> when it is None
\* or empty; file.image tells what PIL makes of the bytes: "ok",
\* "unidentified" (UnidentifiedImageError) or "broken" (verify raises another
\* exception, which no except clause of the handler takes)
analyze_food(file, table, seq, now, instance, made, api_key, init, agent_result) ==
    LET rejected(out) == Done(out, <<>>, instance, made, table, seq)
    IN  IF file.content_type = <<>> \/ file.content_type[1] # "image/"
        THEN rejected(HTTPException(415, <<"El archivo debe ser una imagen">>))
        ELSE IF file.image = "unidentified"
        THEN rejected(HTTPException(415, <<"No se pudo procesar la imagen">>))
        ELSE IF file.image = "broken"
        THEN rejected(ServerError)
        ELSE analyze_food_except(analyze_food_try(table, seq, now, instance, made,
                                                  api_key, init, agent_result))

---------------------------------------------------------------------------
(* SpecApi: requests to POST /analyze_food, GET /substitutes, GET /compare  *)
(* and GET /analysis/{analysis_id}, each with what the environment does     *)
(* during it.                                                               *)

Uploads ==
    { [content_type |-> <<>>, image |-> "ok"],
      [content_type |-> <<"text/", "plain">>, image |-> "ok"],
      [content_type |-> <<"image/", "png">>, image |-> "unidentified"],
      [content_type |-> <<"image/", "png">>, image |-> "broken"],
      [content_type |-> <<"image/", "png">>, image |-> "ok"] }

\* the values of OPENAI_API_KEY in the environment: not set, empty, set
ApiKeys == {None, "", "sk"}

\* what the making of the agent does
Inits == {Return(None), Raise(Exc("RuntimeError", <<"dspy failed">>))}

\* a dish analysis whose field has the value the prompt did not ask for
With(entity, field, value) ==
    [i \in DOMAIN entity |->
        IF entity[i][1] = field THEN <<field, value>> ELSE entity[i]]

\* what the model replies to the prompt of analyze_food_image
CompleteAnalysis == Return(Wrap("json", PayloadText(DishAnalysis(<<"x">>))))

\* a complete analysis within a fence; ingredients as one string; dish_name
\* as a number and as a list; an analysis without fun_facts; prose; no reply
AnalysisReplies ==
    { CompleteAnalysis,
      Return(PayloadText(With(DishAnalysis(<<"x">>), "ingredients", JStr(<<"x">>)))),
      Return(PayloadText(With(DishAnalysis(<<"x">>), "dish_name", JNum("70")))),
      Return(PayloadText(With(DishAnalysis(<<"x">>), "dish_name", Words(<<"x">>)))),
      Return(PayloadText(Without(DishAnalysis(<<"x">>), "fun_facts"))),
      Return(<<"x", " ", "y">>),
      Raise(Exc("APITimeoutError", <<"Request timed out.">>)) }

\* what the model replies to the prompt of compare_dishes
CompleteComparison == Return(Wrap("json", PayloadText(DishComparison(<<"x">>))))

ComparisonReplies ==
    { CompleteComparison,
      Return(<<"x", " ", "y">>),
      Raise(Exc("APITimeoutError", <<"Request timed out.">>)) }

\* what the ChainOfThought call and the making of the agent do when they
\* work
Reasoned == Return([rationale |-> "r"])
Made == Return(None)

\* what the environment does during a request that reaches the agent: every
\* reply with the rest working, and each of the rest failing in its turn
Environments(replies, complete) ==
    {[init |-> Made, api |-> api, cot |-> Reasoned] : api \in replies}
        \cup {[init |-> Made, api |-> complete, cot |-> cot] : cot \in Predictions}
        \cup {[init |-> init, api |-> complete, cot |-> Reasoned] : init \in Inits}

\* the same with what the agent then returns to the handler
AnalysisEnvironments ==
    {[init |-> e.init, api |-> e.api, cot |-> e.cot,
      agent_result |-> analyze_image(e.api, e.cot)] :
        e \in Environments(AnalysisReplies, CompleteAnalysis)}

ComparisonEnvironments ==
    {[init |-> e.init, api |-> e.api, cot |-> e.cot,
      agent_result |-> compare(e.api, e.cot)] :
        e \in Environments(ComparisonReplies, CompleteComparison)}

\* the uploads with what the environment does during their request; a
\* rejected upload never reaches the agent
AnalyzeFoodRequests ==
    {[file |-> file, env |-> e] :
        file \in {u \in Uploads : u.content_type # <<>> /\ u.image = "ok"
                                    /\ u.content_type[1] = "image/"},
        e \in AnalysisEnvironments}
    \cup {[file |-> file, env |-> e] :
            file \in Uploads,
            e \in {x \in AnalysisEnvironments :
                    x.init = Made /\ x.api = CompleteAnalysis /\ x.cot = Reasoned}}

\* what a get_substitutes method would return
SubstituteResults ==
    { [success |-> TRUE, ingredient |-> <<"x">>, category |-> <<"y">>,
       substitutes |-> Words(<<"y">>), agent_reasoning |-> "r"],
      [success |-> TRUE, ingredient |-> <<"x">>, substitutes |-> Words(<<"y">>)],
      [success |-> FALSE, error |-> <<"x">>] }

\* the identifiers a client asks for
AnalysisIds == 1 .. MaxSaves + 1

InitApi ==
    /\ ExtractIdle
    /\ AgentIdle
    /\ DbIdle
    /\ _agent_instance = <<>>
    /\ constructed = 0
    /\ OPENAI_API_KEY \in ApiKeys
    /\ http = <<>>

\* the request handled and what came of it
Handled(endpoint, input, done) ==
    /\ http' = <<[endpoint |-> endpoint,
                  input |-> input,
                  before |-> [rows |-> rows, _agent_instance |-> _agent_instance,
                              constructed |-> constructed],
                  response |-> done.out,
                  calls |-> done.calls]>>
    /\ _agent_instance' = done._agent_instance
    /\ constructed' = done.constructed

AnalyzeFood ==
    /\ sqlite_sequence < MaxSaves
    /\ \E r \in AnalyzeFoodRequests :
        \E done \in {analyze_food(r.file, rows, sqlite_sequence, clock, _agent_instance,
                                  constructed, OPENAI_API_KEY, r.env.init,
                                  r.env.agent_result)} :
            /\ Handled("analyze_food", r, done)
            /\ rows' = done.rows
            /\ sqlite_sequence' = done.sqlite_sequence
    /\ UNCHANGED <<extractVars, agentVars, clock, response, saves, OPENAI_API_KEY>>

GetSubstitutes ==
    /\ \E init \in Inits, substitutes \in SubstituteResults :
        \E done \in {get_substitutes(<<"x">>, _agent_instance, constructed,
                                     OPENAI_API_KEY, init, substitutes)} :
            /\ (init = Made \/ substitutes.success)
            /\ Handled("get_substitutes", [init |-> init, substitutes |-> substitutes],
                       done)
    /\ UNCHANGED <<extractVars, agentVars, dbVars, OPENAI_API_KEY>>

CompareTwoDishes ==
    /\ \E analysis_id1, analysis_id2 \in AnalysisIds, e \in ComparisonEnvironments :
        \E done \in {compare_two_dishes(analysis_id1, analysis_id2, rows, sqlite_sequence,
                                        _agent_instance, constructed, OPENAI_API_KEY,
                                        e.init, e.agent_result)} :
            /\ Handled("compare_two_dishes",
                       [analysis_id1 |-> analysis_id1, analysis_id2 |-> analysis_id2,
                        env |-> e], done)
            /\ rows' = done.rows
            /\ sqlite_sequence' = done.sqlite_sequence
    /\ UNCHANGED <<extractVars, agentVars, clock, response, saves, OPENAI_API_KEY>>

GetAnalysis ==
    /\ \E analysis_id \in AnalysisIds :
        \E out \in {get_analysis(rows, analysis_id)} :
            Handled("get_analysis", [analysis_id |-> analysis_id],
                    DoneAgent(out, <<>>, _agent_instance, constructed))
    /\ UNCHANGED <<extractVars, agentVars, dbVars, OPENAI_API_KEY>>

NextApi ==
    \/ AnalyzeFood
    \/ GetSubstitutes
    \/ CompareTwoDishes
    \/ GetAnalysis

SpecApi == InitApi /\ [][NextApi]_vars

---------------------------------------------------------------------------
(* C1 *)

\* the text of s from position i on
From(s, i) == SubSeq(s, i, Len(s))

\* the text of s before the first occurrence of pat, all of s when there is none
Before(s, pat) == IF In(pat, s) THEN SubSeq(s, 1, Find(s, pat) - 1) ELSE s

\* the text of s after the first occurrence of pat
After(s, pat) == From(s, Find(s, pat) + Len(pat))

\* C1 as stated: the text between the first json-labeled opener and the next
\* fence delimiter, else between the first pair of fence delimiters, else the
\* whole reply; trimmed.  An unclosed fence runs to the end of the reply.
StatedCandidate(c) ==
    IF In(JsonFence, c)
    THEN Strip(Before(After(c, JsonFence), Fence))
    ELSE IF In(Fence, c)
    THEN Strip(Before(After(c, Fence), Fence))
    ELSE Strip(c)

\* C1 as the code has it: in the first tier the text after the opener is cut
\* at the next json-labeled opener before the closing delimiter is looked for.
AmendedCandidate(c) ==
    IF In(JsonFence, c)
    THEN Strip(Before(Before(After(c, JsonFence), JsonFence), Fence))
    ELSE IF In(Fence, c)
    THEN Strip(Before(After(c, Fence), Fence))
    ELSE Strip(c)

\* C1 (original statement): in each of the three tools the candidate payload
\* is the three-tier choice, the first tier ending at the next fence
\* delimiter after the first json-labeled opener.
C1_StatedFallback == tool # None => json_str = StatedCandidate(content)

\* C1 (amended): in each of the three tools the candidate payload is the
\* three-tier choice in fixed order, where the first tier takes the text
\* after the first json-labeled opener up to the next json-labeled opener
\* (or the end) and cuts it at its first fence delimiter.
C1_ThreeTierFallback == tool # None => json_str = AmendedCandidate(content)

\* the comparison tool took the text of a json-labeled fence that follows
\* some prose
C1_Witness ==
    /\ tool = "compare_dishes"
    /\ content = <<"x">> \o JsonFence \o <<"x">> \o Fence
    /\ json_str = <<"x">>

---------------------------------------------------------------------------
(* C2 - C7, under SpecAgent *)

ToolOf(op) ==
    CASE op = "analyze_image" -> "analyze_food_image"
      [] op = "get_nutrition" -> "calculate_nutrition"
      [] op = "compare" -> "compare_dishes"

\* the call in progress or answered last, and what it did
TheCall == request[1]
TheOutcome == result[1]
IsAnswered == request # <<>> /\ result # <<>>

\* the call returned the dict of a failure
Failure(o) == ~Raised(o) /\ o.ret.success = FALSE

\* the call returned the dict of a success
Success(o) == ~Raised(o) /\ o.ret.success = TRUE

\* the dict the entity's payload stands for
ObjOf(entity) == JObj([k \in {Key(f) : f \in FieldsOf(entity)} |-> ValueOf(entity, k[1])])

\* the record a successful answer carries equals the entity field for field
CarriesEntity(op, dict, entity) ==
    CASE op = "analyze_image" ->
            \A f \in Range(DishAnalysisFields) : dict[f] = ValueOf(entity, f)
      [] op = "get_nutrition" -> dict.nutrition = ObjOf(entity)
      [] op = "compare" -> dict.comparison = ObjOf(entity)

\* the wrappers C2 compares with one another: with and without prose around
Tiers(w) ==
    IF Prose(w) THEN {"prose_bare", "prose_json", "prose_generic"}
    ELSE {"bare", "json", "generic"}

Rewrapped(r, w) == [r EXCEPT !.api = Return(Wrap(w, PayloadText(r.entity))), !.wrapper = w]

\* C2: a reply that carries a well-formed payload bare, in a json-labeled
\* fence or in a generic fence is answered the same in all three forms, also
\* with prose around it and with fence delimiters inside its string values.
C2_FenceTierInvariance ==
    IsAnswered /\ TheCall.made = "payload" =>
        \A w \in Tiers(TheCall.wrapper) : Answer(Rewrapped(TheCall, w)) = TheOutcome

\* the reply of the call has no fence and its trimmed text does not parse
Unparseable(r) ==
    /\ ~Raised(r.api)
    /\ ~In(Fence, r.api.ret)
    /\ Raised(Loads(Strip(r.api.ret)))

\* C3: a reply with no fence that does not parse is answered with a failure
\* returned as a value, whose error is the decode error of the trimmed reply
\* and which carries nothing else; no exception escapes the agent.
C3_GarbageIsReturnedFailure ==
    IsAnswered /\ Unparseable(TheCall) =>
        /\ ~Raised(TheOutcome)
        /\ TheOutcome.ret = [success |-> FALSE,
                             error |-> Loads(Strip(TheCall.api.ret)).exc.msg]
        /\ Loads(Strip(TheCall.api.ret)).exc.type = "JSONDecodeError"

\* plain prose sent to get_nutrition came back as a failure value
C3_Witness ==
    /\ IsAnswered
    /\ TheCall.op = "get_nutrition"
    /\ TheCall.api = Return(<<"x", " ", "y">>)
    /\ Failure(TheOutcome)
    /\ TheOutcome.ret.error = <<"Expecting value", "char", "0">>

\* what json.loads makes of the candidate payload of the call's reply
Parsed(r) == Loads(ToolJsonStr(ToolOf(r.op), r.api.ret))

\* the required fields the parsed payload lacks
Missing(r) == {f \in Range(Fields(r.op)) : Key(f) \notin DOMAIN Parsed(r).ret.obj}

\* the reply of the call parses to a dict that lacks a required field
OmitsField(r) ==
    /\ ~Raised(r.api)
    /\ ~Raised(Parsed(r))
    /\ IsObj(Parsed(r).ret)
    /\ Missing(r) # {}

DecodeReasons ==
    {"Expecting value", "Extra data", "Unterminated string starting at",
     "Invalid control character at", "Invalid \\escape", "Expecting ',' delimiter",
     "Expecting ':' delimiter", "Expecting property name enclosed in double quotes"}

\* C4: a payload that parses but omits a required field of its schema is
\* answered with a failure that names a missing field, never with a decode
\* failure and never with a success.  Stated for the calls whose later
\* ChainOfThought step does not raise, where nothing but the payload decides
\* the answer.
C4_MissingFieldIsSchemaMismatch ==
    IsAnswered /\ OmitsField(TheCall) /\ ~Raised(TheCall.cot) =>
        /\ Failure(TheOutcome)
        /\ \E f \in Missing(TheCall) : f \in Range(TheOutcome.ret.error)
        /\ TheOutcome.ret.error[1] \notin DecodeReasons

\* the reply carries a well-formed payload with every required field
CarriesComplete(r) ==
    /\ r.made = "payload"
    /\ FieldsOf(r.entity) = Range(Fields(r.op))

\* C5: a reply that carries a well-formed payload with all required fields is
\* answered with a success whose record equals the payload field for field,
\* whatever the later steps of the call do.
C5_RoundTrip ==
    IsAnswered /\ CarriesComplete(TheCall) =>
        /\ Success(TheOutcome)
        /\ CarriesEntity(TheCall.op, TheOutcome.ret, TheCall.entity)

\* the call failed in extraction: the model replied, and json.loads of the
\* candidate raised or, in analyze_image, a required field lookup raised
ExtractionFailed(r) ==
    /\ ~Raised(r.api)
    /\ \/ Raised(Parsed(r))
       \/ /\ r.op = "analyze_image"
          /\ \E f \in Range(DishAnalysisFields) : Raised(GetItem(Parsed(r).ret, f))

\* what a caller can tell the kind of an answer by: the dict without the
\* text of its message
ErrorKind(o) == [k \in DOMAIN o.ret \ {"error"} |-> o.ret[k]]

\* C6: the answer to a call whose model invocation failed and the answer to
\* a call whose extraction failed are of different error kinds.
C6_InvocationErrorIsDistinct ==
    IsAnswered /\ ExtractionFailed(TheCall) /\ Failure(TheOutcome)
        /\ last_invocation_failure # <<>> =>
            ErrorKind(last_invocation_failure[1]) # ErrorKind(TheOutcome)

RecordFields ==
    {"dish_name", "ingredients", "recipe_steps", "fun_facts", "nutrition", "comparison"}

---------------------------------------------------------------------------
(* C8 - C10, under Spec *)

TheResponse == response[1]

ReturnedIds == {saves[i].id : i \in DOMAIN saves}

\* the dict of a lookup holds what the save was given
HoldsAnalysis(dict, a) ==
    /\ dict.dish_name = a.dish_name
    /\ dict.ingredients = a.ingredients
    /\ dict.recipe_steps = a.recipe_steps
    /\ dict.fun_facts = a.fun_facts

\* the identifiers a caller may ask for
LookupIds == 0 .. MaxSaves + 1

\* C8: every save_analysis returned an integer identifier that no earlier
\* save returned; get_analysis_by_id with it returns the dish name and the
\* three lists that save was given, in order; get_analysis_by_id with an
\* identifier no save returned yields no record.
C8_SaveAndLookup ==
    /\ \A i, j \in DOMAIN saves : i < j => saves[i].id # saves[j].id
    /\ \A i \in DOMAIN saves :
        LET got == get_analysis_by_id(rows, saves[i].id)
        IN  /\ saves[i].id \in Int
            /\ ~Raised(got)
            /\ got.ret # <<>>
            /\ got.ret[1].id = saves[i].id
            /\ HoldsAnalysis(got.ret[1], saves[i].analysis)
    /\ \A id \in LookupIds \ ReturnedIds : get_analysis_by_id(rows, id) = Return(<<>>)
    /\ response # <<>> /\ TheResponse.op = "get_analysis_by_id" =>
        TheResponse.ret = get_analysis_by_id(rows, TheResponse.arg)

\* after two saves the second one, whose strings need escaping, was looked
\* up and came back as saved
C8_Witness ==
    /\ Len(saves) = 2
    /\ response # <<>>
    /\ TheResponse.op = "get_analysis_by_id"
    /\ TheResponse.arg = saves[2].id
    /\ saves[2].analysis.dish_name = <<"y", Q>>
    /\ ~Raised(TheResponse.ret)
    /\ TheResponse.ret.ret # <<>>
    /\ HoldsAnalysis(TheResponse.ret.ret[1], saves[2].analysis)

SaveIndex(id) == CHOOSE i \in DOMAIN saves : saves[i].id = id

\* the listing a response carries
Listing(r) == IF r.op = "get_history" THEN r.ret.history ELSE r.ret

\* C10: in every listing a record saved later stands before a record saved
\* earlier, also when both were saved in the same second, and a listing cut
\* by the limit keeps the records saved last.
C10_ReverseChronological ==
    response # <<>> /\ TheResponse.op \in {"get_history", "get_all_analyses"} =>
        LET l == Listing(TheResponse)
        IN  /\ \A i, j \in DOMAIN l :
                i < j => SaveIndex(l[i].id) > SaveIndex(l[j].id)
            /\ \A i \in DOMAIN l : SaveIndex(l[i].id) > Len(saves) - Len(l)

---------------------------------------------------------------------------
(* C11 - C16, under SpecApi *)

TheHttp == http[1]

\* the request handled last went to this endpoint
Served(endpoint) == http # <<>> /\ TheHttp.endpoint = endpoint

\* the places in the calls of the request of the calls of name
CallsTo(name) == {i \in DOMAIN TheHttp.calls : TheHttp.calls[i].call = name}

\* the body of a 200 carries the analysis of the agent's result
CarriesAnalysis(body, agent_result) ==
    /\ body.nombre_plato = agent_result.dish_name
    /\ body.receta.ingredientes = agent_result.ingredients
    /\ body.receta.pasos = agent_result.recipe_steps
    /\ body.datos_curiosos = agent_result.fun_facts

\* the row of this identifier is new and holds the analysis of the agent's
\* result
Persisted(id, agent_result) ==
    /\ id \in DOMAIN rows
    /\ id \notin DOMAIN TheHttp.before.rows
    /\ get_analysis_by_id(rows, id) =
        Return(<<[id |-> id,
                  dish_name |-> agent_result.dish_name.str,
                  ingredients |-> agent_result.ingredients,
                  recipe_steps |-> agent_result.recipe_steps,
                  fun_facts |-> agent_result.fun_facts,
                  created_at |-> rows[id].created_at]>>)

\* C11: a 200 of POST /analyze_food carries the dish name, ingredients,
\* steps and facts of the agent's successful result and follows the save of
\* that analysis; a failure of the agent is answered with an error status
\* whose detail holds the agent's message, never with a 200.
C11_AnalyzeFoodResponse ==
    Served("analyze_food") =>
        /\ TheHttp.response.status = 200 =>
            \E i \in CallsTo("analyze_image"), j \in CallsTo("save_analysis") :
                /\ i < j
                /\ Success(TheHttp.calls[i].outcome)
                /\ CarriesAnalysis(TheHttp.response.body, TheHttp.calls[i].outcome.ret)
                /\ ~Raised(TheHttp.calls[j].outcome)
                /\ Persisted(TheHttp.calls[j].outcome.ret, TheHttp.calls[i].outcome.ret)
        /\ \A i \in CallsTo("analyze_image") :
            Failure(TheHttp.calls[i].outcome) =>
                /\ TheHttp.response.status >= 400
                /\ TheHttp.response.body.detail =
                    <<"Error del agente: ">> \o TheHttp.calls[i].outcome.ret.error

\* an upload was answered 200 with the analysis the model replied, which is
\* the one row of the table
C11_Witness ==
    /\ Served("analyze_food")
    /\ TheHttp.response.status = 200
    /\ TheHttp.response.body.nombre_plato = JStr(<<"x">>)
    /\ TheHttp.response.body.receta.pasos = Words(<<"y">>)
    /\ DOMAIN rows = {1}
    /\ rows[1].dish_name = <<"x">>

\* C12: once the agent is there, get_ingredient_substitutes ends in one of
\* two ways: the dict with ingredient, category, substitutes,
\* agent_reasoning and source "agent", or an "Agent error" exception with
\* the agent's message.
C12_SubstitutesThroughAgent ==
    Served("get_substitutes") /\ ~Raised(TheHttp.calls[1].outcome) =>
        \/ /\ TheHttp.response.status = 200
           /\ DOMAIN TheHttp.response.body =
                {"ingredient", "category", "substitutes", "agent_reasoning", "source"}
           /\ TheHttp.response.body.source = "agent"
        \/ /\ TheHttp.response.status = 500
           /\ Len(TheHttp.response.body.detail) >= 2
           /\ TheHttp.response.body.detail[2] = "Agent error: "

\* C13: a POST /analyze_food that is not answered 200 leaves the rows of the
\* table as they were.
C13_NoRowWithoutSuccess ==
    Served("analyze_food") /\ TheHttp.response.status # 200 =>
        rows = TheHttp.before.rows

\* C14: at most one agent is ever made, the stored agent is that one, and
\* every get_agent call that returns returns it; with the API key missing
\* the call raises ValueError and nothing is stored, and after any failed
\* call a call with the key set and a working construction makes the agent.
C14_SingleAgent ==
    /\ constructed <= 1
    /\ _agent_instance \in {<<>>, <<FoodAnalyzerAgent(1)>>}
    /\ _agent_instance # <<>> => constructed = 1
    /\ http # <<>> =>
        \A i \in CallsTo("get_agent") :
            LET got == TheHttp.calls[i].outcome
            IN  /\ ~Raised(got) =>
                    /\ _agent_instance = <<got.ret>>
                    /\ TheHttp.before._agent_instance \in {<<>>, <<got.ret>>}
                /\ OPENAI_API_KEY \in {None, ""} =>
                    /\ Raised(got)
                    /\ got.exc.type = "ValueError"
                /\ Raised(got) =>
                    /\ _agent_instance = <<>>
                    /\ constructed = 0
                    /\ get_agent(_agent_instance, constructed, "sk", Made) =
                        [out |-> Return(FoodAnalyzerAgent(1)),
                         _agent_instance |-> <<FoodAnalyzerAgent(1)>>,
                         constructed |-> 1]

\* a request found the agent stored by an earlier one and was handed it
C14_Witness ==
    /\ http # <<>>
    /\ CallsTo("get_agent") # {}
    /\ TheHttp.before._agent_instance = <<FoodAnalyzerAgent(1)>>
    /\ \A i \in CallsTo("get_agent") :
        TheHttp.calls[i].outcome = Return(FoodAnalyzerAgent(1))
    /\ constructed = 1

\* the identifier the request names has no stored analysis
Absent(analysis_id) == analysis_id \notin DOMAIN TheHttp.before.rows

\* C15: compare_dishes_from_db first looks up both analyses; when one is
\* absent it fails naming the first absent identifier, and neither get_agent
\* nor the agent has been called; the agent is called only after two lookups
\* that found their analyses; the table is never changed.
C15_LookupsBeforeAgent ==
    Served("compare_two_dishes") =>
        LET id1 == TheHttp.input.analysis_id1
            id2 == TheHttp.input.analysis_id2
            calls == TheHttp.calls
        IN  /\ Len(calls) >= 2
            /\ calls[1] = Called("get_analysis_by_id",
                                 get_analysis_by_id(TheHttp.before.rows, id1))
            /\ calls[2] = Called("get_analysis_by_id",
                                 get_analysis_by_id(TheHttp.before.rows, id2))
            /\ Absent(id1) \/ Absent(id2) =>
                /\ Len(calls) = 2
                /\ TheHttp.response =
                    HTTPException(500,
                        <<"Error al comparar platos: ", "Analisis con ID ",
                          ToString(IF Absent(id1) THEN id1 ELSE id2), " no encontrado">>)
                /\ _agent_instance = TheHttp.before._agent_instance
                /\ constructed = TheHttp.before.constructed
            /\ \A i \in CallsTo("get_agent") \cup CallsTo("compare") :
                /\ i > 2
                /\ ~Absent(id1)
                /\ ~Absent(id2)
            /\ rows = TheHttp.before.rows

\* two different identifiers, both absent: the answer names the first, and
\* only the two lookups were made
C15_Witness ==
    /\ Served("compare_two_dishes")
    /\ TheHttp.input.analysis_id1 = 2
    /\ TheHttp.input.analysis_id2 = 1
    /\ rows = <<>>
    /\ Len(TheHttp.calls) = 2
    /\ TheHttp.response.body.detail[3] = "2"

\* C16: GET /analysis/{analysis_id} answers 404 exactly when no analysis of
\* that identifier is stored and the stored record otherwise; a 500 is
\* answered only when the lookup raised.
C16_NotFoundIs404 ==
    Served("get_analysis") =>
        LET id == TheHttp.input.analysis_id
            status == TheHttp.response.status
            body == TheHttp.response.body
        IN  /\ status = 404 <=> id \notin DOMAIN rows
            /\ status = 404 => body.detail = <<"Analisis no encontrado">>
            /\ id \in DOMAIN rows /\ ~Raised(get_analysis_by_id(rows, id)) =>
                /\ status = 200
                /\ body.id = id
                /\ body.dish_name = rows[id].dish_name
                /\ Return(body.ingredients) = Loads(rows[id].ingredients)
                /\ Return(body.recipe_steps) = Loads(rows[id].recipe_steps)
                /\ Return(body.fun_facts) = Loads(rows[id].fun_facts)
                /\ body.created_at = rows[id].created_at
            /\ status = 500 => Raised(get_analysis_by_id(rows, id))

\* an identifier that is not stored was answered 404 while a row is stored
C16_Witness ==
    /\ Served("get_analysis")
    /\ TheHttp.input.analysis_id = 2
    /\ DOMAIN rows = {1}
    /\ TheHttp.response = HTTPException(404, <<"Analisis no encontrado">>)

=============================================================================
